---- MODULE Spec2Model ----
(***************************************************************************)
(* cargo-gc: garbage collection of a cargo target directory.               *)
(*                                                                         *)
(* The model follows src/src/main.rs (gc_workspace, gc_artifects,          *)
(* remove_recursive) and src/src/_collect.rs (collect_workspace_units,     *)
(* collect_units).  The file system is a set of existing paths; a path is  *)
(* the sequence of its components below the target directory, which is the *)
(* empty sequence.  The Build Planner (cargo's create_bcx) is an oracle    *)
(* fixed at Init: the workspace `ws` decides the unit graph of every       *)
(* (target, profile, compile mode), `failing` the one request it rejects.  *)
(*                                                                         *)
(* Three further specifications follow the garbage collector: SpecMerge    *)
(* (the merge of two LTO requirements in cargo_lto.rs calculate),          *)
(* SpecLto (generate and calculate of src/src/cargo_lto.rs over a unit     *)
(* graph) and SpecMeta (metadata_of and compute_metadata of                *)
(* src/src/metadata.rs).  Each specification moves its own variables and   *)
(* leaves the variables of the others at their initial values.             *)
(***************************************************************************)
EXTENDS Naturals, Sequences, FiniteSets

VARIABLES
    fs,               \* the paths that exist below the target directory
    ws,               \* the workspace the Build Planner resolves
    failing,          \* <<>> or the <<target, profile, mode>> create_bcx fails for
    denied,           \* paths whose remove_file / remove_dir fails
    unlistable,       \* directories whose read_dir fails
    pc,               \* position in gc_workspace / gc_artifects
    dry_run,          \* CliArgs::dry_run of the current run
    plat,             \* "host" or the target-triple entry being checked
    prof,             \* "debug" or "release"
    platTodo,         \* entries of read_dir(target_dir) not yet visited
    zoneIdx,          \* index into subdirs
    todo,             \* entries of the current read_dir not yet visited
    reachable,        \* collect::Reachable of the current gc_artifects
    bytes,            \* collected_bytes of gc_artifects
    collected_bytes,  \* collected_bytes of gc_workspace
    runs,             \* runs of gc_workspace finished so far
    fs0,              \* history: fs when the current run started
    selected,         \* history: entries handed to `remove` in the current run
    last,             \* history: outcome of the run that ended last
    prev              \* history: outcome of the run before that

VARIABLES
    operands,         \* SpecMerge: the three requirements drawn at Init
    merged,           \* SpecMerge: the merges computed from them, <<>> before
    bcx,              \* SpecLto: units, unit_graph and roots of the build context
    map,              \* SpecLto: HashMap<Unit, Lto> of generate
    rootsTodo,        \* SpecLto: roots that generate has not visited yet
    stack,            \* SpecLto: the calculate calls that are in their dependency loop
    recursed,         \* SpecLto history: times calculate reached the loop, per unit
    cx,               \* SpecMeta: units, unit_deps, rustc and the varied attribute
    metas,            \* SpecMeta: HashMap<Unit, Option<Metadata>>
    calls,            \* SpecMeta: the metadata_of / compute_metadata calls in progress
    computed,         \* SpecMeta history: executions of compute_metadata, per unit
    varied            \* SpecMeta: <<>> or the one attribute changed for the comparison

gcvars == <<fs, ws, failing, denied, unlistable, pc, dry_run, plat, prof, platTodo,
            zoneIdx, todo, reachable, bytes, collected_bytes, runs, fs0, selected,
            last, prev>>
mergevars == <<operands, merged>>
ltovars == <<bcx, map, rootsTodo, stack, recursed>>
metavars == <<cx, metas, calls, computed, varied>>
vars == <<gcvars, mergevars, ltovars, metavars>>

MergeIdle == operands = <<>> /\ merged = <<>>
LtoIdle ==
    /\ bcx = <<>> /\ map = <<>> /\ rootsTodo = {} /\ stack = <<>> /\ recursed = <<>>
MetaIdle ==
    /\ cx = <<>> /\ metas = <<>> /\ calls = <<>> /\ computed = <<>> /\ varied = <<>>

env == <<ws, failing, denied, unlistable>>

(***************************************************************************)
(* Bounds                                                                  *)
(***************************************************************************)
MaxRuns == 2

(***************************************************************************)
(* Names and paths                                                         *)
(***************************************************************************)
HOST == "host"
Triple == "t-x"
LOCK == ".cargo-lock"

\* main.rs 219-223: the three zones, in the order the code walks them.
subdirs == <<".fingerprint", "build", "deps">>

\* _collect.rs 31-42: the compile modes requested from the planner, in order.
compile_modes == <<"Test", "Build", "Check", "CheckTest", "Bench">>

\* Every name of the model, in the canonical listing order.
AllNames == <<".cargo-lock", ".fingerprint", "a", "app", "app.d", "b", "build",
              "debug", "deps", "doc", "incremental", "k", "m", "old", "release", "t-x">>

\* str::contains('-') on the names of the model (main.rs 168).
ContainsHyphen(name) == name \in {"t-x"}

\* symlink_metadata().is_dir() / file_type().is_file(): the kind of an entry.
DirNames == {"debug", "release", "t-x", "doc", ".fingerprint", "build", "deps",
             "a", "incremental"}
IsDir(p) == p = <<>> \/ p[Len(p)] \in DirNames
IsFile(p) == ~IsDir(p)

\* meta.len(): the size of an entry itself.
MetaLen(p) ==
    LET n == p[Len(p)] IN
    CASE n = "b" -> 2
      [] n = "k" -> 4
      [] n = "m" -> 128
      [] n = "app" -> 8
      [] n = "app.d" -> 16
      [] n = "old" -> 32
      [] n = ".cargo-lock" -> 64
      [] OTHER -> 1

FileName(p) == p[Len(p)]
Parent(p) == SubSeq(p, 1, Len(p) - 1)
IsUnder(p, d) == Len(p) >= Len(d) /\ SubSeq(p, 1, Len(d)) = d
Children(d, f) == {p \in f : Len(p) = Len(d) + 1 /\ Parent(p) = d}

\* dir.join("debug") / dir.join("release") (main.rs 156, 160).
ProfileDir(pl, pr) == IF pl = HOST THEN <<pr>> ELSE <<pl, pr>>
Roots == {ProfileDir(pl, pr) : pl \in {HOST, Triple}, pr \in {"debug", "release"}}

RECURSIVE SumLen(_)
SumLen(S) ==
    IF S = {} THEN 0
    ELSE LET x == CHOOSE y \in S : TRUE IN MetaLen(x) + SumLen(S \ {x})

Reverse(s) == [i \in 1..Len(s) |-> s[Len(s) + 1 - i]]
(***************************************************************************)
(* The Build Planner and the Identifier Collector (_collect.rs)            *)
(***************************************************************************)
Workspaces == {"w1", "w2", "w3"}

Unit(pkg, mode, custom_build, bin) ==
    [pkg |-> pkg, mode |-> mode, custom_build |-> custom_build, bin |-> bin]

\* bcx.unit_graph of create_bcx for one request.  `target` is "host" for an
\* empty target list, `profile` is the requested profile ("dev", "release").
\*   w1: package a (library with a build script) and package b (binary app),
\*       the same in every configuration;
\*   w2: a is a dev-dependency, built for tests of the dev profile only, and
\*       b (binary app) is built by the release profile only;
\*   w3: b alone, a library with a build script, no binary.
UnitGraph(w, target, profile, mode) ==
    CASE w = "w1" ->
           {Unit("a", "Build", TRUE, FALSE), Unit("a", "RunCustomBuild", TRUE, FALSE)}
           \cup (IF mode = "Build" THEN {Unit("b", "Build", FALSE, TRUE)}
                 ELSE IF mode \in {"Test", "Bench"} THEN {Unit("b", "Test", FALSE, TRUE)}
                 ELSE {Unit("b", "Check", FALSE, TRUE)})
      [] w = "w2" ->
           IF profile = "dev"
           THEN (IF mode = "Test" THEN {Unit("a", "Build", FALSE, FALSE)} ELSE {})
           ELSE (IF mode = "Build" THEN {Unit("b", "Build", FALSE, TRUE)} ELSE {})
      [] OTHER ->
           {Unit("b", "Build", TRUE, FALSE), Unit("b", "RunCustomBuild", TRUE, FALSE)}

\* create_bcx(...).context("Create BuildContext")? (_collect.rs 76).
PlannerFails(target, profile, mode) == failing = <<target, profile, mode>>

EmptyReachable == [fingerprints |-> {}, builds |-> {}, deps |-> {}, uplifts |-> {}]

Merge(r1, r2) ==
    [fingerprints |-> r1.fingerprints \cup r2.fingerprints,
     builds |-> r1.builds \cup r2.builds,
     deps |-> r1.deps \cup r2.deps,
     uplifts |-> r1.uplifts \cup r2.uplifts]

\* "{pkg}-{meta}" / output_filename / "{crate}-{meta}.d" / uplift_filename:
\* the names a unit owns, one per package in this model.
PkgDir(u) == u.pkg
OutputFilename(u) == u.pkg
DepInfoName(u) == IF u.pkg = "a" THEN "a.d" ELSE "b.d"
UpliftFilename(u) == "app"
UpliftDepInfo(u) == "app.d"

\* The body of the loop of collect_units for one unit (_collect.rs 87-136).
UnitNames(u) ==
    LET outputs == u.mode \in {"Test", "Build", "Bench", "Check"}
        uplift == outputs /\ u.mode = "Build" /\ u.bin
    IN [fingerprints |-> {PkgDir(u)},
        builds |-> IF u.custom_build THEN {PkgDir(u)} ELSE {},
        deps |-> (IF outputs THEN {OutputFilename(u)} ELSE {}) \cup {DepInfoName(u)},
        uplifts |-> IF uplift THEN {UpliftFilename(u), UpliftDepInfo(u)} ELSE {}]

RECURSIVE MergeAll(_)
MergeAll(S) ==
    IF S = {} THEN EmptyReachable
    ELSE LET x == CHOOSE y \in S : TRUE IN Merge(x, MergeAll(S \ {x}))

\* collect_units (_collect.rs 69-138) over the graph of one compile mode.
collect_units(w, target, profile, mode) ==
    MergeAll({UnitNames(u) : u \in UnitGraph(w, target, profile, mode)})

\* A plausible slip: the error of collect_units dropped, the modes that can
\* be planned still inserted.
collect_workspace_units_lenient(w, target, profile) ==
    [ok |-> TRUE,
     out |-> MergeAll({collect_units(w, target, profile, compile_modes[i]) :
                       i \in {j \in 1..Len(compile_modes) :
                                ~PlannerFails(target, profile, compile_modes[j])}})]

\* A plausible slip: only the plain build requested from the planner.
collect_workspace_units_build_only(w, target, profile) ==
    IF \E i \in 1..Len(compile_modes) : PlannerFails(target, profile, compile_modes[i])
    THEN [ok |-> FALSE, out |-> EmptyReachable]
    ELSE [ok |-> TRUE, out |-> collect_units(w, target, profile, "Build")]

\* collect_workspace_units (_collect.rs 20-67): the modes in order, the first
\* planner failure returned at once, otherwise everything inserted into `out`.
collect_workspace_units(w, target, profile) ==
    IF \E i \in 1..Len(compile_modes) : PlannerFails(target, profile, compile_modes[i])
    THEN [ok |-> FALSE, out |-> EmptyReachable]
    ELSE [ok |-> TRUE,
          out |-> MergeAll({collect_units(w, target, profile, compile_modes[i]) :
                            i \in 1..Len(compile_modes)})]

(***************************************************************************)
(* remove_recursive (main.rs 255-271)                                      *)
(***************************************************************************)
\* A plausible slip: the dry-run flag not consulted before removing a file.
RemoveFileAlways(path, dry, f) == f \ {path}

\* fs::remove_file(path) under `if !dry_run` (main.rs 266-268).
RemoveFile(path, dry, f) == IF dry THEN f ELSE f \ {path}

\* A plausible slip: the emptied directory itself left in place.
RemoveDirKeepsDir(path, dry, f) == f

\* fs::remove_dir(path) under `if !dry_run` (main.rs 262-264).
RemoveDir(path, dry, f) == IF dry THEN f ELSE f \ {path}

\* Whether the removal of `path` is attempted and fails.
DeleteFails(path, dry) == ~dry /\ path \in denied

\* fs::read_dir(dir) returns an error: the directory is missing or unreadable.
ReadDirFails(dir, f) == (dir # <<>> /\ dir \notin f) \/ dir \in unlistable

\* A plausible slip: only the sub-directories of `dir` listed.
EntriesDirectoriesOnly(dir, f, rev) ==
    LET In(n) == dir \o <<n>> \in f /\ IsDir(dir \o <<n>>)
        c == SelectSeq(AllNames, In)
        names == IF rev THEN Reverse(c) ELSE c
    IN [i \in 1..Len(names) |-> dir \o <<names[i]>>]

\* The entries read_dir(dir) yields, as paths, in canonical or reverse order.
Entries(dir, f, rev) ==
    LET In(n) == dir \o <<n>> \in f
        c == SelectSeq(AllNames, In)
        names == IF rev THEN Reverse(c) ELSE c
    IN [i \in 1..Len(names) |-> dir \o <<names[i]>>]

RECURSIVE remove_recursive(_, _, _, _)
RECURSIVE RemoveEach(_, _, _, _)

\* A plausible slip: a dry run that does not descend into directories.
RemoveEachSkippedWhenDry(entries, dry, f, rev) ==
    IF entries = <<>> \/ dry THEN [ok |-> TRUE, ret |-> 0, fs |-> f]
    ELSE LET r == remove_recursive(Head(entries), dry, f, rev) IN
         IF ~r.ok THEN r
         ELSE LET rest == RemoveEach(Tail(entries), dry, r.fs, rev) IN
              [ok |-> rest.ok, ret |-> r.ret + rest.ret, fs |-> rest.fs]

\* The loop `for entry in fs::read_dir(path)? { ret += remove_recursive(..)? }`
\* over the entries still to visit; the first error ends it.
RemoveEach(entries, dry, f, rev) ==
    IF entries = <<>> THEN [ok |-> TRUE, ret |-> 0, fs |-> f]
    ELSE LET r == remove_recursive(Head(entries), dry, f, rev) IN
         IF ~r.ok THEN r
         ELSE LET rest == RemoveEach(Tail(entries), dry, r.fs, rev) IN
              [ok |-> rest.ok, ret |-> r.ret + rest.ret, fs |-> rest.fs]

\* remove_recursive(path, dry_run): the size summed and the tree left behind;
\* on an error the tree keeps the removals made before it.
remove_recursive(path, dry, f, rev) ==
    IF IsDir(path)
    THEN IF ReadDirFails(path, f)
         THEN [ok |-> FALSE, ret |-> 0, fs |-> f]
         ELSE LET kids == RemoveEach(Entries(path, f, rev), dry, f, rev) IN
              IF ~kids.ok \/ DeleteFails(path, dry)
              THEN [ok |-> FALSE, ret |-> 0, fs |-> kids.fs]
              ELSE [ok |-> TRUE, ret |-> MetaLen(path) + kids.ret,
                    fs |-> RemoveDir(path, dry, kids.fs)]
    ELSE IF DeleteFails(path, dry)
         THEN [ok |-> FALSE, ret |-> 0, fs |-> f]
         ELSE [ok |-> TRUE, ret |-> MetaLen(path), fs |-> RemoveFile(path, dry, f)]

(***************************************************************************)
(* gc_artifects: which entries are handed to `remove` (main.rs 224-250)    *)
(***************************************************************************)
\* main.rs 220-222: the live set of the zone subdirs[i]; the top level, which
\* is no entry of subdirs, is tested against the uplifts (main.rs 245-247).
TOP == 0
ZoneSet(r, i) ==
    CASE i = 1 -> r.fingerprints
      [] i = 2 -> r.builds
      [] i = 3 -> r.deps
      [] OTHER -> r.uplifts

\* A plausible slip: the negation of the membership test lost.
ShouldRemoveZoneInverted(name, set) == name \in set

\* main.rs 227-233: a zone entry is removed when its name is not in the set.
ShouldRemoveZone(name, set) == name \notin set

\* A plausible slip: the lock file not excluded.
ShouldRemoveTopNoLock(path, uplifts) ==
    /\ IsFile(path)
    /\ FileName(path) \notin uplifts

\* main.rs 242-247: a top-level entry is removed when it is a regular file,
\* is not `.cargo-lock` and is not an uplifted name.
ShouldRemoveTop(path, uplifts) ==
    /\ IsFile(path)
    /\ FileName(path) # LOCK
    /\ FileName(path) \notin uplifts

\* collect_workspace_units' arguments for a platform and a profile directory
\* (main.rs 158, 162, 189-200).
TargetOf(pl) == pl
ProfileName(pr) == IF pr = "debug" THEN "dev" ELSE "release"

(***************************************************************************)
(* Initial states: an output tree, a workspace and at most one fault       *)
(***************************************************************************)
\* A profile directory as cargo lays it out: the three zones, each holding a
\* directory `a` (with a file `k`, and a second file `m` in build) and a file
\* `b`, and the top-level entries.
FullRoot(r) ==
    {r, r \o <<"build", "a", "m">>}
    \cup {r \o <<subdirs[i]>> : i \in 1..Len(subdirs)}
    \cup UNION {{r \o <<subdirs[i], "a">>, r \o <<subdirs[i], "a", "k">>,
                 r \o <<subdirs[i], "b">>} : i \in 1..Len(subdirs)}
    \cup {r \o <<n>> : n \in {LOCK, "app", "app.d", "old", "incremental"}}

\* The output tree with the profile directories R: `doc` is always there, the
\* target-triple directory when one of its profile directories is.
Tree(R) ==
    {<<"doc">>, <<"doc", "debug">>, <<"doc", "debug", "deps">>,
     <<"doc", "debug", "deps", "b">>}
    \cup (IF \E r \in R : r[1] = Triple THEN {<<Triple>>} ELSE {})
    \cup UNION {FullRoot(r) : r \in R}

\* The sets of profile directories found on disk.
RootFamilies ==
    {{<<"debug">>}, {<<"release">>}, {<<"debug">>, <<"release">>},
     {<<"release">>, <<Triple, "debug">>}, {<<"debug">>, <<Triple, "release">>},
     {<<Triple, "debug">>, <<Triple, "release">>}}

NoFault == [failing |-> <<>>, denied |-> {}, unlistable |-> {}, missing |-> {}]

PlatOf(r) == IF Len(r) = 1 THEN HOST ELSE r[1]
ProfOf(r) == r[Len(r)]

\* The single faults a run over the profile directories R can meet.
Faults(R) ==
    {NoFault}
    \cup {[NoFault EXCEPT !.failing = <<TargetOf(PlatOf(r)), ProfileName(ProfOf(r)),
                                        compile_modes[i]>>] :
          r \in R, i \in 1..Len(compile_modes)}
    \cup {[NoFault EXCEPT !.denied = {r \o q}] :
          r \in R, q \in {<<"build", "a">>, <<"build", "a", "k">>, <<"deps", "b">>,
                          <<"old">>}}
    \cup {[NoFault EXCEPT !.unlistable = {r \o q}] :
          r \in R, q \in {<<>>, <<"build">>, <<".fingerprint", "a">>}}
    \cup {[NoFault EXCEPT !.unlistable = {<<>>}]}
    \cup {[NoFault EXCEPT !.missing = {r \o <<subdirs[i]>>}] :
          r \in R, i \in 1..Len(subdirs)}

NoRun == [valid |-> FALSE, ok |-> FALSE, err |-> "", bytes |-> 0, dry |-> FALSE,
          selected |-> {}]

Init ==
    /\ ws \in Workspaces
    /\ \E R \in RootFamilies : \E fault \in Faults(R) :
          /\ failing = fault.failing
          /\ denied = fault.denied
          /\ unlistable = fault.unlistable
          /\ fs = {p \in Tree(R) : \A m \in fault.missing : ~IsUnder(p, m)}
    /\ pc = "idle"
    /\ dry_run = FALSE
    /\ plat = HOST
    /\ prof = "debug"
    /\ platTodo = <<>>
    /\ zoneIdx = 1
    /\ todo = <<>>
    /\ reachable = EmptyReachable
    /\ bytes = 0
    /\ collected_bytes = 0
    /\ runs = 0
    /\ fs0 = fs
    /\ selected = {}
    /\ last = NoRun
    /\ prev = NoRun
    /\ MergeIdle /\ LtoIdle /\ MetaIdle

\* The garbage collector before main has run: an empty target directory.
GcIdle ==
    /\ fs = {} /\ ws = "w1" /\ failing = <<>> /\ denied = {} /\ unlistable = {}
    /\ pc = "idle" /\ dry_run = FALSE /\ plat = HOST /\ prof = "debug"
    /\ platTodo = <<>> /\ zoneIdx = 1 /\ todo = <<>> /\ reachable = EmptyReachable
    /\ bytes = 0 /\ collected_bytes = 0 /\ runs = 0 /\ fs0 = {} /\ selected = {}
    /\ last = NoRun /\ prev = NoRun

(***************************************************************************)
(* gc_workspace (main.rs 151-179) and gc_artifects (main.rs 181-253)       *)
(***************************************************************************)
\* Where `check` and the loop of gc_workspace go after a profile directory.
Advance ==
    /\ plat' = plat
    /\ IF prof = "debug"
       THEN prof' = "release" /\ pc' = "check"
       ELSE prof' = prof /\ pc' = IF plat = HOST THEN "read_target" ELSE "next_platform"

\* A run of gc_workspace returns to main: Ok(total) or the error.
EndRun(ok, err, total, sel) ==
    /\ pc' = "idle"
    /\ runs' = runs + 1
    /\ prev' = last
    /\ last' = [valid |-> TRUE, ok |-> ok, err |-> err, bytes |-> total,
                dry |-> dry_run, selected |-> sel]

\* A plausible slip: the error of one profile directory's pass dropped by
\* `check`, the run going on with the next profile directory.
PropagateToCheckOnly(err) ==
    /\ Advance
    /\ UNCHANGED <<fs, platTodo, zoneIdx, todo, reachable, bytes, collected_bytes,
                   selected, runs, last, prev>>

\* `?` on an error of the planner or of a listing: gc_artifects returns it,
\* `check` returns it, gc_workspace returns it (main.rs 158, 162, 166, 170).
Propagate(err) ==
    /\ EndRun(FALSE, err, 0, selected)
    /\ UNCHANGED <<fs, plat, prof, platTodo, zoneIdx, todo, reachable, bytes,
                   collected_bytes, selected>>

\* A plausible slip: the result of `remove` dropped, the walk going on.
OnRemoveErrorIgnored(sel) ==
    /\ todo' = Tail(todo)
    /\ UNCHANGED <<pc, plat, prof, platTodo, zoneIdx, bytes, collected_bytes, runs,
                   last, prev>>

\* `remove(&entry.path())?` on an error of remove_recursive (main.rs 216,
\* 233, 248): the walk stops and the error goes up to main.
OnRemoveError(sel) ==
    /\ EndRun(FALSE, "remove", 0, sel)
    /\ UNCHANGED <<plat, prof, platTodo, zoneIdx, todo, bytes, collected_bytes>>

\* main: gc_workspace(&ws, args.dry_run) (main.rs 104, 151-153, 165).
StartRun(d) ==
    /\ pc = "idle"
    /\ runs < MaxRuns
    /\ dry_run' = d
    /\ collected_bytes' = 0
    /\ plat' = HOST
    /\ prof' = "debug"
    /\ pc' = "check"
    /\ platTodo' = <<>>
    /\ zoneIdx' = 1
    /\ todo' = <<>>
    /\ reachable' = EmptyReachable
    /\ bytes' = 0
    /\ fs0' = fs
    /\ selected' = {}
    /\ UNCHANGED <<fs, env, runs, last, prev>>

\* check: `if p.is_dir()` for debug, then release (main.rs 156-163).
CheckProfile ==
    /\ pc = "check"
    /\ IF ProfileDir(plat, prof) \in fs
       THEN pc' = "collect" /\ UNCHANGED <<plat, prof>>
       ELSE Advance
    /\ UNCHANGED <<fs, env, dry_run, platTodo, zoneIdx, todo, reachable, bytes,
                   collected_bytes, runs, fs0, selected, last, prev>>

\* gc_artifects up to the first listing (main.rs 189-206).
Collect ==
    /\ pc = "collect"
    /\ LET c == collect_workspace_units(ws, TargetOf(plat), ProfileName(prof)) IN
       IF c.ok
       THEN /\ reachable' = c.out
            /\ bytes' = 0
            /\ zoneIdx' = 1
            /\ pc' = "list_zone"
            /\ UNCHANGED <<fs, plat, prof, platTodo, todo, collected_bytes, runs,
                           selected, last, prev>>
       ELSE Propagate("planner")
    /\ UNCHANGED <<env, dry_run, fs0>>

\* `fs::read_dir(dir.join(subdir))?` (main.rs 225).
ListZone ==
    /\ pc = "list_zone"
    /\ LET dir == ProfileDir(plat, prof) \o <<subdirs[zoneIdx]>> IN
       IF ReadDirFails(dir, fs)
       THEN Propagate("read_dir")
       ELSE /\ \E rev \in BOOLEAN : todo' = Entries(dir, fs, rev)
            /\ pc' = "zone"
            /\ UNCHANGED <<fs, plat, prof, platTodo, zoneIdx, reachable, bytes,
                           collected_bytes, runs, selected, last, prev>>
    /\ UNCHANGED <<env, dry_run, fs0>>

\* The closure `remove` and the `?` on its result (main.rs 207-217).
Remove(path, live, zone) ==
    \E rev \in BOOLEAN :
        LET r == remove_recursive(path, dry_run, fs, rev)
            sel == selected \cup {[path |-> path, live |-> live, zone |-> zone]}
        IN /\ fs' = r.fs
           /\ selected' = sel
           /\ UNCHANGED <<reachable>>
           /\ IF r.ok
              THEN /\ bytes' = bytes + r.ret
                   /\ todo' = Tail(todo)
                   /\ UNCHANGED <<pc, plat, prof, platTodo, zoneIdx, collected_bytes,
                                  runs, last, prev>>
              ELSE OnRemoveError(sel)

\* One iteration of the loop over a zone's entries, or the end of that loop
\* (main.rs 224-235).
ZoneEntry ==
    /\ pc = "zone"
    /\ IF todo = <<>>
       THEN /\ IF zoneIdx < Len(subdirs)
               THEN zoneIdx' = zoneIdx + 1 /\ pc' = "list_zone"
               ELSE zoneIdx' = zoneIdx /\ pc' = "list_top"
            /\ UNCHANGED <<fs, plat, prof, platTodo, todo, reachable, bytes,
                           collected_bytes, runs, selected, last, prev>>
       ELSE LET path == Head(todo)
                set == ZoneSet(reachable, zoneIdx)
            IN IF ShouldRemoveZone(FileName(path), set)
               THEN Remove(path, set, zoneIdx)
               ELSE /\ todo' = Tail(todo)
                    /\ UNCHANGED <<fs, pc, plat, prof, platTodo, zoneIdx, reachable,
                                   bytes, collected_bytes, runs, selected, last, prev>>
    /\ UNCHANGED <<env, dry_run, fs0>>

\* `fs::read_dir(dir)?` of the profile directory itself (main.rs 238).
ListTop ==
    /\ pc = "list_top"
    /\ LET dir == ProfileDir(plat, prof) IN
       IF ReadDirFails(dir, fs)
       THEN Propagate("read_top")
       ELSE /\ \E rev \in BOOLEAN : todo' = Entries(dir, fs, rev)
            /\ pc' = "top"
            /\ UNCHANGED <<fs, plat, prof, platTodo, zoneIdx, reachable, bytes,
                           collected_bytes, runs, selected, last, prev>>
    /\ UNCHANGED <<env, dry_run, fs0>>

\* One iteration of the loop over the top-level entries, or gc_artifects
\* returning Ok(collected_bytes) to `check` (main.rs 158, 162, 238-252).
TopEntry ==
    /\ pc = "top"
    /\ IF todo = <<>>
       THEN /\ collected_bytes' = collected_bytes + bytes
            /\ Advance
            /\ UNCHANGED <<fs, platTodo, zoneIdx, todo, reachable, bytes, runs,
                           selected, last, prev>>
       ELSE LET path == Head(todo) IN
            IF ShouldRemoveTop(path, reachable.uplifts)
            THEN Remove(path, reachable.uplifts, TOP)
            ELSE /\ todo' = Tail(todo)
                 /\ UNCHANGED <<fs, pc, plat, prof, platTodo, zoneIdx, reachable,
                                bytes, collected_bytes, runs, selected, last, prev>>
    /\ UNCHANGED <<env, dry_run, fs0>>

\* `fs::read_dir(target_dir)?` (main.rs 166).
ReadTargetDir ==
    /\ pc = "read_target"
    /\ IF ReadDirFails(<<>>, fs)
       THEN Propagate("read_target")
       ELSE /\ \E rev \in BOOLEAN : platTodo' = Entries(<<>>, fs, rev)
            /\ pc' = "next_platform"
            /\ UNCHANGED <<fs, plat, prof, zoneIdx, todo, reachable, bytes,
                           collected_bytes, runs, selected, last, prev>>
    /\ UNCHANGED <<env, dry_run, fs0>>

\* One iteration of the loop over the target directory's entries, or
\* gc_workspace returning Ok(collected_bytes) (main.rs 166-178).
NextPlatform ==
    /\ pc = "next_platform"
    /\ IF platTodo = <<>>
       THEN /\ EndRun(TRUE, "", collected_bytes, selected)
            /\ UNCHANGED <<plat, prof, platTodo>>
       ELSE /\ platTodo' = Tail(platTodo)
            /\ IF ContainsHyphen(FileName(Head(platTodo)))
               THEN plat' = FileName(Head(platTodo)) /\ prof' = "debug" /\ pc' = "check"
               ELSE UNCHANGED <<plat, prof, pc>>
            /\ UNCHANGED <<runs, last, prev>>
    /\ UNCHANGED <<fs, env, dry_run, zoneIdx, todo, reachable, bytes, collected_bytes,
                   fs0, selected>>

GcOnly == UNCHANGED <<mergevars, ltovars, metavars>>

Next ==
    \/ GcOnly /\ \E d \in BOOLEAN : StartRun(d)
    \/ GcOnly /\ CheckProfile
    \/ GcOnly /\ Collect
    \/ GcOnly /\ ListZone
    \/ GcOnly /\ ZoneEntry
    \/ GcOnly /\ ListTop
    \/ GcOnly /\ TopEntry
    \/ GcOnly /\ ReadTargetDir
    \/ GcOnly /\ NextPlatform

Spec == Init /\ [][Next]_vars

(***************************************************************************)
(* Vocabulary of the properties                                            *)
(***************************************************************************)
CurRoot == ProfileDir(plat, prof)

\* gc_artifects has collected and is walking the zones or the top level.
InPass == pc \in {"list_zone", "zone", "list_top", "top"}

\* A run has ended with the given error.
EndedWith(err) == pc = "idle" /\ last.valid /\ ~last.ok /\ last.err = err

Subtree(d, f) == {p \in f : IsUnder(p, d)}

\* The profile directory a path lies in, and its planner configuration.
RootOfPath(p) == IF p[1] \in {"debug", "release"} THEN <<p[1]>> ELSE <<p[1], p[2]>>

\* The position of a profile directory in the order gc_workspace visits them.
RootOrder(r) ==
    CASE r = <<"debug">> -> 1
      [] r = <<"release">> -> 2
      [] r = <<Triple, "debug">> -> 3
      [] OTHER -> 4

\* The identifiers of one (platform, profile) configuration: the union over
\* the five compile modes, written out independently of the collector's loop.
ConfigIdentifiers(r) ==
    MergeAll({collect_units(ws, TargetOf(PlatOf(r)), ProfileName(ProfOf(r)), m) :
              m \in {"Test", "Build", "Check", "CheckTest", "Bench"}})

\* The zone directory of index i of the profile directory r (r itself for TOP).
ZoneDir(r, i) == IF i = TOP THEN r ELSE r \o <<subdirs[i]>>

(***************************************************************************)
(* C1  Safety of a pass of gc_artifects: every entry handed to `remove`    *)
(* was absent from the live set of its zone when it was handed over, and,  *)
(* while the pass walks a profile directory (and when it is cut short by   *)
(* a deletion error), every direct child of .fingerprint, build, deps and  *)
(* of the profile directory whose name is in that zone's live set still    *)
(* exists with all of its contents.                                        *)
(***************************************************************************)
C1_LiveEntriesAreNeverRemoved ==
    /\ \A s \in selected : FileName(s.path) \notin s.live
    /\ (InPass \/ EndedWith("remove")) =>
          \A i \in {TOP} \cup (1..Len(subdirs)) :
             \A p \in Children(ZoneDir(CurRoot, i), fs0) :
                FileName(p) \in ZoneSet(reachable, i) => Subtree(p, fs0) \subseteq fs

\* A real pass has removed a stale entry of a zone that also holds a live one.
C1_Witness ==
    /\ InPass
    /\ ~dry_run
    /\ \E s \in selected :
          /\ s.zone # TOP
          /\ s.path \notin fs
          /\ IsUnder(s.path, CurRoot)
          /\ \E p \in Children(Parent(s.path), fs) : FileName(p) \in s.live

(***************************************************************************)
(* C2  (as stated) If the Build Planner fails for any enumerated           *)
(* combination, no file or directory of the output tree has been deleted   *)
(* when the failure is raised.                                             *)
(***************************************************************************)
C2_NothingDeletedBeforePlannerFailure ==
    EndedWith("planner") => fs = fs0

(***************************************************************************)
(* C2  (amended) A planner failure ends the run at once: no zone of a      *)
(* profile directory is walked unless all its compile modes were planned,  *)
(* and when the failure is raised nothing of the profile directory being   *)
(* planned has been deleted by this run; profile directories processed     *)
(* earlier in the run keep the deletions already made in them.             *)
(***************************************************************************)
C2_PlannerFailureEndsRunBeforeItsDirectory ==
    /\ InPass =>
          \A i \in 1..Len(compile_modes) :
             ~PlannerFails(TargetOf(plat), ProfileName(prof), compile_modes[i])
    /\ EndedWith("planner") =>
          /\ Subtree(CurRoot, fs) = Subtree(CurRoot, fs0)
          /\ \E i \in 1..Len(compile_modes) :
                PlannerFails(TargetOf(plat), ProfileName(prof), compile_modes[i])
          /\ \A s \in last.selected : s.path \notin fs \/ last.dry

\* The planner fails for a later profile directory after an earlier one has
\* had entries deleted in the same run.
C2_Witness ==
    /\ EndedWith("planner")
    /\ fs # fs0
    /\ \E s \in last.selected : RootOrder(RootOfPath(s.path)) < RootOrder(CurRoot)

(***************************************************************************)
(* C3  (as stated) When an entry is deleted, the live set it was tested    *)
(* against contains the identifiers of all enumerated (platform, profile)  *)
(* configurations.                                                         *)
(***************************************************************************)
C3_GlobalLiveSetAtDeletion ==
    failing = <<>> =>
       \A s \in selected : s.path \notin fs =>
          \A r \in Roots \cap fs0 :
             ZoneSet(ConfigIdentifiers(r), s.zone) \subseteq s.live

(***************************************************************************)
(* C3  (amended) Each (platform, profile) configuration has its own live   *)
(* set: the union of the identifiers of its five compile modes, complete   *)
(* before the first deletion in its profile directory.  When an entry is   *)
(* deleted, the live set it was tested against is exactly that of the      *)
(* configuration of the directory it lies in.                              *)
(***************************************************************************)
C3_LiveSetIsPerDirectory ==
    /\ InPass => reachable = ConfigIdentifiers(CurRoot)
    /\ \A s \in selected :
          s.live = ZoneSet(ConfigIdentifiers(RootOfPath(s.path)), s.zone)

\* An entry is deleted in one profile directory although another enumerated
\* configuration has its name among its identifiers, and the name tested
\* against is live only through a compile mode other than the plain build.
C3_Witness ==
    /\ failing = <<>>
    /\ \E s \in selected :
          /\ s.path \notin fs
          /\ \E r \in Roots \cap fs0 :
                FileName(s.path) \in ZoneSet(ConfigIdentifiers(r), s.zone)
          /\ s.live # ZoneSet(collect_units(ws, TargetOf(PlatOf(RootOfPath(s.path))),
                                            ProfileName(ProfOf(RootOfPath(s.path))),
                                            "Build"), s.zone)

(***************************************************************************)
(* C4  Idempotence: after a real pass that completed without error, the    *)
(* next real pass over the unchanged tree hands nothing to `remove`,       *)
(* deletes nothing, completes and returns 0 bytes.                         *)
(***************************************************************************)
C4_SecondRealPassFreesNothing ==
    /\ (pc # "idle" /\ ~dry_run /\ last.valid /\ last.ok /\ ~last.dry) =>
          selected = {} /\ fs = fs0 /\ bytes = 0 /\ collected_bytes = 0
    /\ (pc = "idle" /\ prev.valid /\ prev.ok /\ ~prev.dry /\ last.valid /\ ~last.dry) =>
          last.ok /\ last.bytes = 0 /\ last.selected = {}

\* Two real passes in a row have completed, the first having freed a
\* directory together with its contents.
C4_Witness ==
    /\ pc = "idle"
    /\ prev.valid /\ prev.ok /\ ~prev.dry
    /\ last.valid /\ last.ok /\ ~last.dry
    /\ prev.bytes > 0
    /\ \E s \in prev.selected : IsDir(s.path)

(***************************************************************************)
(* C5  Dry-run equivalence: when a dry-run pass is followed by a real pass *)
(* over the same tree with the same live sets and both return a total,     *)
(* the two totals are equal and both passes handed the same entries to     *)
(* `remove`.                                                               *)
(***************************************************************************)
C5_DryRunReportsWhatRealRunFrees ==
    (pc = "idle" /\ prev.valid /\ prev.ok /\ prev.dry /\ last.valid /\ last.ok
        /\ ~last.dry) =>
       last.bytes = prev.bytes /\ last.selected = prev.selected

\* A dry run and then a real run have both returned, having selected a
\* directory with contents.
C5_Witness ==
    /\ pc = "idle"
    /\ prev.valid /\ prev.ok /\ prev.dry
    /\ last.valid /\ last.ok /\ ~last.dry
    /\ last.bytes > 0
    /\ \E s \in last.selected : IsDir(s.path)

(***************************************************************************)
(* C6  A dry run leaves the output tree as it was when the run started,    *)
(* while it runs and after it has returned a value or an error; the total  *)
(* it returns is the sum of the recursive sizes of the entries it would    *)
(* remove.                                                                 *)
(***************************************************************************)
C6_DryRunChangesNothing ==
    /\ dry_run => fs = fs0
    /\ (pc = "idle" /\ last.valid /\ last.ok /\ last.dry) =>
          last.bytes = SumLen({q \in fs : \E s \in last.selected : IsUnder(q, s.path)})

\* A dry run has returned a total that counts a directory and its contents.
C6_Witness ==
    /\ pc = "idle"
    /\ last.valid /\ last.ok /\ last.dry
    /\ last.bytes > 0
    /\ \E s \in last.selected : IsDir(s.path) /\ Children(s.path, fs) # {}

(***************************************************************************)
(* C7  The top-level step hands to `remove` only regular files that are    *)
(* not `.cargo-lock` and not uplifted names; `.cargo-lock` and every       *)
(* directory directly below a profile directory (the zone directories      *)
(* included) are never deleted.                                            *)
(***************************************************************************)
C7_TopLevelKeepsLockAndDirectories ==
    /\ \A s \in selected :
          s.zone = TOP =>
             /\ IsFile(s.path)
             /\ FileName(s.path) # LOCK
             /\ FileName(s.path) \notin s.live
    /\ \A r \in Roots : \A p \in Children(r, fs0) :
          (FileName(p) = LOCK \/ IsDir(p)) => p \in fs

\* The top-level step of a real run has deleted a file while the uplifted
\* set holds no name at all, and the lock file is still there.
C7_Witness ==
    /\ ~dry_run
    /\ pc = "top"
    /\ todo = <<>>
    /\ reachable.uplifts = {}
    /\ \E s \in selected : s.zone = TOP /\ s.path \notin fs /\ Parent(s.path) = CurRoot
    /\ CurRoot \o <<LOCK>> \in fs

(***************************************************************************)
(* C8  When a zone directory (.fingerprint, build or deps) is missing from *)
(* an existing profile directory and nothing else goes wrong, the pass     *)
(* does not fail: the run completes, the other zones and the top level     *)
(* having been collected.                                                  *)
(***************************************************************************)
C8_MissingZoneIsNotAnError ==
    (pc = "idle" /\ last.valid /\ failing = <<>> /\ denied = {} /\ unlistable = {}) =>
       last.ok

(***************************************************************************)
(* C9  (as stated) When a deletion fails during the pass over one profile  *)
(* directory, the run continues with the next output root instead of       *)
(* ending: a run never ends on a deletion error while a later profile      *)
(* directory is still to be processed.                                     *)
(***************************************************************************)
C9_RunContinuesAfterDeletionFailure ==
    EndedWith("remove") =>
       ~\E r \in Roots \cap fs : RootOrder(r) > RootOrder(CurRoot)

(***************************************************************************)
(* C9  (amended) When a deletion fails, the remaining walk of the current  *)
(* zone is abandoned, the deletions already completed are not undone, and  *)
(* the error ends the whole run: gc_workspace returns it and no later      *)
(* profile directory or platform subdirectory is touched.  Hence while a   *)
(* real run goes on, every entry handed to `remove` so far is gone.        *)
(***************************************************************************)
C9_DeletionFailureEndsTheRun ==
    /\ (pc # "idle" /\ ~dry_run) => \A s \in selected : s.path \notin fs
    /\ EndedWith("remove") =>
          /\ todo # <<>>
          /\ \E s \in last.selected :
                /\ s.path = Head(todo)
                /\ \A t \in last.selected \ {s} : last.dry \/ t.path \notin fs
          /\ \A r \in Roots :
                RootOrder(r) > RootOrder(CurRoot) => Subtree(r, fs) = Subtree(r, fs0)

\* A run has ended on a deletion error after completing other deletions,
\* with entries of the zone not yet visited and a later profile directory
\* never processed.
C9_Witness ==
    /\ EndedWith("remove")
    /\ denied # {}
    /\ Len(todo) > 1
    /\ \E t \in last.selected : t.path \notin fs
    /\ \E r \in Roots \cap fs : RootOrder(r) > RootOrder(CurRoot)

(***************************************************************************)
(* C10 (as stated) Listing fully precedes deletion: when listing a zone    *)
(* directory fails, nothing of that profile directory has been deleted by  *)
(* the pass, and the failure ends that profile directory's pass only, the  *)
(* run going on with the profile directories that remain.                  *)
(***************************************************************************)
C10_ListingPrecedesDeletion ==
    EndedWith("read_dir") =>
       /\ Subtree(CurRoot, fs) = Subtree(CurRoot, fs0)
       /\ ~\E r \in Roots \cap fs : RootOrder(r) > RootOrder(CurRoot)

(***************************************************************************)
(* C10 (amended) Listing and deletion alternate zone by zone: when listing *)
(* a zone directory fails, the entries already deleted in that profile     *)
(* directory all lie in the zones walked before it, the failing zone, the  *)
(* later zones and the top level being untouched; the failure ends the     *)
(* whole run, so later profile directories are untouched, and the          *)
(* deletions made in profile directories processed earlier stay.           *)
(***************************************************************************)
C10_ListingFailureEndsTheRun ==
    [][(pc = "list_zone" /\ ReadDirFails(ZoneDir(CurRoot, zoneIdx), fs)) =>
          /\ pc' = "idle"
          /\ last'.valid /\ ~last'.ok /\ last'.err = "read_dir"
          /\ fs' = fs
          /\ \A p \in Subtree(CurRoot, fs0) \ fs :
                \E j \in 1..(zoneIdx - 1) : IsUnder(p, ZoneDir(CurRoot, j))
          /\ \A r \in Roots :
                RootOrder(r) > RootOrder(CurRoot) => Subtree(r, fs) = Subtree(r, fs0)
          /\ \A s \in selected : dry_run \/ s.path \notin fs]_vars

\* A run has ended on the listing error of a zone after entries of an
\* earlier zone of the same profile directory were deleted.
C10_Witness ==
    /\ EndedWith("read_dir")
    /\ zoneIdx > 1
    /\ \E s \in last.selected : s.path \notin fs /\ IsUnder(s.path, CurRoot)

(***************************************************************************)
(* C11  Completeness of a real pass: when gc_artifects is about to return  *)
(* Ok(collected_bytes) for a profile directory in a run that is not a dry  *)
(* run, every direct child of .fingerprint, build and deps whose name is   *)
(* not in that zone's live set is gone with all of its contents, every     *)
(* live child is still there with all of its contents, and the returned    *)
(* total is the sum of the sizes of exactly the paths the pass removed     *)
(* from the profile directory.                                             *)
(***************************************************************************)
C11_RealPassRemovesEveryStaleEntry ==
    (pc = "top" /\ todo = <<>> /\ ~dry_run) =>
       /\ \A i \in 1..Len(subdirs) :
             \A p \in Children(ZoneDir(CurRoot, i), fs0) :
                IF FileName(p) \in ZoneSet(ConfigIdentifiers(CurRoot), i)
                THEN Subtree(p, fs0) \subseteq fs
                ELSE Subtree(p, fs0) \cap fs = {}
       /\ bytes = SumLen(Subtree(CurRoot, fs0) \ fs)

\* A real pass is about to return after removing a stale fingerprint
\* directory, with its contents, from a zone that keeps a live entry.
C11_Witness ==
    /\ pc = "top" /\ todo = <<>> /\ ~dry_run
    /\ bytes > 0
    /\ \E p \in Children(ZoneDir(CurRoot, 1), fs0) :
          /\ IsDir(p)
          /\ Subtree(p, fs0) # {p}
          /\ Subtree(p, fs0) \cap fs = {}
    /\ \E p \in Children(ZoneDir(CurRoot, 1), fs) :
          FileName(p) \in reachable.fingerprints

(***************************************************************************)
(* LTO requirements (cargo_lto.rs)                                         *)
(*                                                                         *)
(* A requirement is cargo's enum Lto.  Run carries Option<name>: <<>> for  *)
(* None, <<name>> for Some(name); the other variants carry <<>>.           *)
(***************************************************************************)
Off == [tag |-> "Off", s |-> <<>>]
OnlyObject == [tag |-> "OnlyObject", s |-> <<>>]
OnlyBitcode == [tag |-> "OnlyBitcode", s |-> <<>>]
ObjectAndBitcode == [tag |-> "ObjectAndBitcode", s |-> <<>>]
Run(s) == [tag |-> "Run", s |-> s]

LtoNames == {"thin", "fat"}
LtoValues ==
    {Off, OnlyObject, OnlyBitcode, ObjectAndBitcode, Run(<<>>)}
        \cup {Run(<<n>>) : n \in LtoNames}

IsRun(x) == x.tag = "Run"

\* A plausible slip: the escalation arm lost, the new value kept.
mergeWithoutEscalation(lto, stored) ==
    CASE lto = OnlyBitcode /\ stored = OnlyBitcode -> OnlyBitcode
      [] lto = OnlyObject /\ stored = OnlyObject -> OnlyObject
      [] IsRun(lto) -> lto
      [] IsRun(stored) -> stored
      [] lto = Off \/ stored = Off -> Off
      [] lto = ObjectAndBitcode \/ stored = ObjectAndBitcode -> ObjectAndBitcode
      [] OTHER -> lto

\* A plausible slip: the Off arm written before the Run arm.
mergeOffFirst(lto, stored) ==
    IF lto = OnlyBitcode /\ stored = OnlyBitcode THEN OnlyBitcode
    ELSE IF lto = OnlyObject /\ stored = OnlyObject THEN OnlyObject
    ELSE IF lto = Off \/ stored = Off THEN Off
    ELSE IF IsRun(lto) THEN lto
    ELSE IF IsRun(stored) THEN stored
    ELSE ObjectAndBitcode

\* A plausible slip: an occupied entry never updated.
mergeKeepsStored(lto, stored) == stored

\* `match (lto, v.get())` of an occupied entry (cargo_lto.rs 113-144).  The
\* arms are tried in the order written: (Run(s), _) before (_, Run(s)), both
\* before the Off arm.
merge(lto, stored) ==
    IF lto = OnlyBitcode /\ stored = OnlyBitcode THEN OnlyBitcode
    ELSE IF lto = OnlyObject /\ stored = OnlyObject THEN OnlyObject
    ELSE IF IsRun(lto) THEN lto
    ELSE IF IsRun(stored) THEN stored
    ELSE IF lto = Off \/ stored = Off THEN Off
    ELSE IF lto = ObjectAndBitcode \/ stored = ObjectAndBitcode THEN ObjectAndBitcode
    ELSE ObjectAndBitcode

(***************************************************************************)
(* SpecMerge: the merge applied to every triple of requirements            *)
(***************************************************************************)
MergeInit ==
    /\ operands \in LtoValues \X LtoValues \X LtoValues
    /\ merged = <<>>
    /\ GcIdle /\ LtoIdle /\ MetaIdle

\* The merges of the three operands a, b, c: the first argument is the
\* newly computed value `lto`, the second the stored value `v.get()`.
ApplyMerge ==
    /\ merged = <<>>
    /\ LET a == operands[1]
           b == operands[2]
           c == operands[3]
       IN merged' = [ab |-> merge(a, b), ba |-> merge(b, a), aa |-> merge(a, a),
                     ab_c |-> merge(merge(a, b), c), a_bc |-> merge(a, merge(b, c))]
    /\ UNCHANGED <<operands, gcvars, ltovars, metavars>>

MergeNext == ApplyMerge

SpecMerge == MergeInit /\ [][MergeNext]_vars

MaxUnits == 3

Units == 1..MaxUnits

\* profiles::Lto
PLtoOff == <<"Off">>
PLtoBool(b) == <<"Bool", b>>
PLtoNamed(n) == <<"Named", n>>

unit(mode, types, host, plto) ==
    [mode |-> mode, crate_types |-> types, for_host |-> host, lto |-> plto]

\* The units a graph is drawn from: executables with lto off and with a
\* named lto, unit tests of a library with and without lto, libraries, a
\* dylib, an rlib + cdylib combination and a proc-macro built for the host.
UnitKinds ==
    {unit("Build", <<"bin">>, FALSE, l) : l \in {PLtoOff, PLtoNamed("thin")}}
    \cup {unit("Test", <<"lib">>, FALSE, PLtoBool(b)) : b \in BOOLEAN}
    \cup {unit("Build", <<"lib">>, FALSE, PLtoBool(b)) : b \in BOOLEAN}
    \cup {unit("Build", <<"dylib">>, FALSE, PLtoBool(TRUE)),
          unit("Build", <<"lib", "cdylib">>, FALSE, PLtoBool(TRUE)),
          unit("Build", <<"proc-macro">>, TRUE, PLtoBool(TRUE))}

\* CrateType::can_lto and CrateType::is_dynamic of cargo, as used at
\* cargo_lto.rs 37 and 75.
can_lto(ct) == ct \in {"bin", "staticlib", "cdylib"}
is_dynamic(ct) == ct \in {"dylib", "cdylib", "proc-macro"}

\* cargo_lto.rs 36-38
needs_object(types) ==
    \E i \in 1..Len(types) : can_lto(types[i]) \/ is_dynamic(types[i])

\* cargo_lto.rs 41-53
lto_when_needs_object(types) ==
    IF \A i \in 1..Len(types) : types[i] = "dylib"
    THEN OnlyObject
    ELSE ObjectAndBitcode

\* generate: the requirement a root is started with (cargo_lto.rs 13-29).
root_lto(u) ==
    IF u.lto \in {PLtoBool(FALSE), PLtoOff}
    THEN OnlyObject
    ELSE IF u.for_host THEN OnlyObject
    ELSE IF needs_object(u.crate_types) THEN lto_when_needs_object(u.crate_types)
    ELSE OnlyBitcode

\* calculate: the crate types the unit is compiled as (cargo_lto.rs 61-72).
crate_types(u) ==
    IF u.mode \in {"Test", "Bench", "Doctest"} THEN <<"bin">> ELSE u.crate_types

\* cargo_lto.rs 75
all_lto_types(u) ==
    \A i \in 1..Len(crate_types(u)) : can_lto(crate_types(u)[i])

\* A plausible slip: an rlib below a parent that runs LTO inherits Run.
ltoInheritsRun(u, parent_lto) ==
    IF u.for_host THEN OnlyObject
    ELSE IF all_lto_types(u)
    THEN CASE u.lto[1] = "Named" -> Run(<<u.lto[2]>>)
           [] u.lto = PLtoOff -> Off
           [] u.lto = PLtoBool(TRUE) -> Run(<<>>)
           [] OTHER -> OnlyObject
    ELSE LET obj == needs_object(crate_types(u)) IN
         IF IsRun(parent_lto) /\ obj THEN lto_when_needs_object(crate_types(u))
         ELSE IF parent_lto = OnlyBitcode /\ obj
         THEN lto_when_needs_object(crate_types(u))
         ELSE IF parent_lto = Off THEN OnlyObject
         ELSE parent_lto

\* calculate: the requirement computed for the unit from its profile and
\* from what the parent requires (cargo_lto.rs 77-103).
lto(u, parent_lto) ==
    IF u.for_host THEN OnlyObject
    ELSE IF all_lto_types(u)
    THEN CASE u.lto[1] = "Named" -> Run(<<u.lto[2]>>)
           [] u.lto = PLtoOff -> Off
           [] u.lto = PLtoBool(TRUE) -> Run(<<>>)
           [] OTHER -> OnlyObject
    ELSE LET obj == needs_object(crate_types(u)) IN
         IF IsRun(parent_lto) /\ ~obj THEN OnlyBitcode
         ELSE IF (IsRun(parent_lto) \/ parent_lto = OnlyBitcode) /\ obj
         THEN lto_when_needs_object(crate_types(u))
         ELSE IF parent_lto = Off THEN OnlyObject
         ELSE parent_lto

Put(m, k, v) == [x \in DOMAIN m \cup {k} |-> IF x = k THEN v ELSE m[x]]

\* A plausible slip: the early return on an unchanged entry lost.
UnchangedNever(result, stored) == FALSE

\* `if result == *v.get() { return Ok(()) }` (cargo_lto.rs 145-148)
Unchanged(result, stored) == result = stored

\* A plausible slip: the dependencies given the newly computed value
\* instead of the merged one.
EnterPassesNew(b, m, n, parent_lto) ==
    LET new == lto(b.units[n], parent_lto) IN
    IF n \notin DOMAIN m
    THEN [map |-> Put(m, n, new), loop |-> TRUE, merged_lto |-> new]
    ELSE LET result == merge(new, m[n]) IN
         IF Unchanged(result, m[n])
         THEN [map |-> m, loop |-> FALSE, merged_lto |-> m[n]]
         ELSE [map |-> Put(m, n, result), loop |-> TRUE, merged_lto |-> new]

\* calculate up to its loop (cargo_lto.rs 55-152): the map afterwards,
\* whether the loop over the dependencies is reached, and merged_lto.
Enter(b, m, n, parent_lto) ==
    LET new == lto(b.units[n], parent_lto) IN
    IF n \notin DOMAIN m
    THEN [map |-> Put(m, n, new), loop |-> TRUE, merged_lto |-> new]
    ELSE LET result == merge(new, m[n]) IN
         IF Unchanged(result, m[n])
         THEN [map |-> m, loop |-> FALSE, merged_lto |-> m[n]]
         ELSE [map |-> Put(m, n, result), loop |-> TRUE, merged_lto |-> result]

\* The dependency edges over a set of units: from a lower to a higher number.
ForwardGraphs(U) == {g \in [U -> SUBSET U] : \A n \in U : \A d \in g[n] : d > n}

\* The units no unit depends on.
Sources(g) == {n \in DOMAIN g : \A p \in DOMAIN g : n \notin g[p]}

\* generate starts with an empty map on a build context: any assignment of
\* kinds to the units, any forward edges, any set of roots that holds at
\* least the units no unit depends on.
LtoInit ==
    /\ \E k \in [Units -> UnitKinds], g \in ForwardGraphs(Units), r \in SUBSET Units :
          /\ Sources(g) \subseteq r
          /\ bcx = [units |-> k, unit_graph |-> g, roots |-> r]
    /\ map = <<>>
    /\ rootsTodo = bcx.roots
    /\ stack = <<>>
    /\ recursed = [n \in Units |-> 0]
    /\ GcIdle /\ MergeIdle /\ MetaIdle

\* calculate(bcx, map, unit, parent_lto) called with `rest` as the callers
\* that stay in their loops (cargo_lto.rs 55-158).
Calculate(n, parent_lto, rest) ==
    LET e == Enter(bcx, map, n, parent_lto) IN
    /\ map' = e.map
    /\ IF e.loop
       THEN /\ stack' = <<[unit |-> n, merged_lto |-> e.merged_lto,
                           deps |-> bcx.unit_graph[n]]>> \o rest
            /\ recursed' = [recursed EXCEPT ![n] = @ + 1]
       ELSE /\ stack' = rest
            /\ recursed' = recursed

\* generate: `for unit in bcx.roots.iter()` calls calculate with the root
\* requirement (cargo_lto.rs 12-30).
GenerateRoot ==
    /\ stack = <<>>
    /\ \E r \in rootsTodo :
          /\ rootsTodo' = rootsTodo \ {r}
          /\ Calculate(r, root_lto(bcx.units[r]), <<>>)
    /\ UNCHANGED <<bcx, gcvars, mergevars, metavars>>

\* calculate: `for dep in &bcx.unit_graph[unit]` calls calculate with
\* merged_lto (cargo_lto.rs 154-156).
CalculateDep ==
    /\ stack # <<>>
    /\ Head(stack).deps # {}
    /\ \E d \in Head(stack).deps :
          Calculate(d, Head(stack).merged_lto,
                    <<[Head(stack) EXCEPT !.deps = @ \ {d}]>> \o Tail(stack))
    /\ UNCHANGED <<bcx, rootsTodo, gcvars, mergevars, metavars>>

\* calculate returns Ok(()) after its loop (cargo_lto.rs 157).
CalculateReturn ==
    /\ stack # <<>>
    /\ Head(stack).deps = {}
    /\ stack' = Tail(stack)
    /\ UNCHANGED <<bcx, map, rootsTodo, recursed, gcvars, mergevars, metavars>>

LtoNext == GenerateRoot \/ CalculateDep \/ CalculateReturn

SpecLto == LtoInit /\ [][LtoNext]_vars

\* generate has returned Ok(map).
Generated == bcx # <<>> /\ stack = <<>> /\ rootsTodo = {}

(***************************************************************************)
(* Vocabulary of the properties of generate                                *)
(***************************************************************************)
Parents(b, n) == {p \in Units : n \in b.unit_graph[p]}

\* The merge of all values of a non-empty set.
RECURSIVE Lub(_)
Lub(S) ==
    LET x == CHOOSE y \in S : TRUE IN
    IF S = {x} THEN x ELSE merge(x, Lub(S \ {x}))

\* The values a unit gets along each single path from a root: the root rule
\* at the root, then the rule of calculate applied to the value the same
\* path gave the parent.
RECURSIVE PathValues(_, _)
PathValues(b, n) ==
    (IF n \in b.roots THEN {lto(b.units[n], root_lto(b.units[n]))} ELSE {})
    \cup UNION {{lto(b.units[n], v) : v \in PathValues(b, p)} : p \in Parents(b, n)}

\* The values a unit gets from the root rule and from the value stored for
\* each of its parents.
ParentValues(b, m, n) ==
    (IF n \in b.roots THEN {lto(b.units[n], root_lto(b.units[n]))} ELSE {})
    \cup {lto(b.units[n], m[p]) : p \in Parents(b, n)}

(***************************************************************************)
(* C14  (as stated) When generate has returned, the value stored for a     *)
(* unit is the least upper bound of the values the unit gets along each    *)
(* single root-to-unit path taken separately.                              *)
(***************************************************************************)
C14_StoredIsLubOfPathValues ==
    Generated => \A n \in Units : map[n] = Lub(PathValues(bcx, n))

(***************************************************************************)
(* C14  (amended) When generate has returned, the value stored for a unit  *)
(* is an upper bound of the value of every single root-to-unit path, and   *)
(* it is the least upper bound of the root rule (for a root) and of the    *)
(* propagation rule applied to the value stored for each of its parents:   *)
(* what a unit gets from a parent depends on what other paths merged into  *)
(* that parent.                                                            *)
(***************************************************************************)
C14_StoredIsLubOfParentValues ==
    Generated =>
       \A n \in Units :
          /\ n \in DOMAIN map
          /\ \A v \in PathValues(bcx, n) : merge(v, map[n]) = map[n]
          /\ map[n] = Lub(ParentValues(bcx, map, n))

\* A unit stores ObjectAndBitcode although every single path gives it
\* OnlyObject: its parent was reached with OnlyObject and with OnlyBitcode.
C14_Witness ==
    /\ Generated
    /\ \E n \in Units :
          /\ PathValues(bcx, n) = {OnlyObject}
          /\ map[n] = ObjectAndBitcode
          /\ \E p \in Parents(bcx, n) :
                {OnlyObject, OnlyBitcode} \subseteq PathValues(bcx, p)

(***************************************************************************)
(* generate with the roots and every dependency list taken in ascending    *)
(* order, as one computation: the map and the times each unit's loop was   *)
(* reached.                                                                *)
(***************************************************************************)
Min(S) == CHOOSE x \in S : \A y \in S : x <= y

RECURSIVE calculate(_, _, _, _)
RECURSIVE CalculateDeps(_, _, _, _)

\* cargo_lto.rs 55-158
calculate(b, st, n, parent_lto) ==
    LET e == Enter(b, st.map, n, parent_lto) IN
    IF e.loop
    THEN CalculateDeps(b, [map |-> e.map,
                           recursed |-> [st.recursed EXCEPT ![n] = @ + 1]],
                       b.unit_graph[n], e.merged_lto)
    ELSE st

\* cargo_lto.rs 154-156
CalculateDeps(b, st, deps, merged_lto) ==
    IF deps = {} THEN st
    ELSE CalculateDeps(b, calculate(b, st, Min(deps), merged_lto),
                       deps \ {Min(deps)}, merged_lto)

RECURSIVE GenerateRoots(_, _, _)
GenerateRoots(b, st, roots) ==
    IF roots = {} THEN st
    ELSE GenerateRoots(b, calculate(b, st, Min(roots), root_lto(b.units[Min(roots)])),
                       roots \ {Min(roots)})

\* cargo_lto.rs 10-33
generate(b) ==
    GenerateRoots(b, [map |-> <<>>, recursed |-> [n \in Units |-> 0]], b.roots)

(***************************************************************************)
(* C15  The map generate returns does not depend on the traversal order:   *)
(* whatever order the roots and the dependencies of each unit were visited *)
(* in, the returned map is the one the ascending order gives.              *)
(***************************************************************************)
C15_MapIsIndependentOfOrder ==
    Generated => map = generate(bcx).map

\* generate has returned after a traversal that differs from the ascending
\* one (it reached some unit's loop a different number of times) over a
\* graph in which a unit is given different values by different paths.
C15_Witness ==
    /\ Generated
    /\ recursed # generate(bcx).recursed
    /\ \E n \in Units :
          {OnlyObject, OnlyBitcode} \subseteq PathValues(bcx, n)

\* A dependency shared by a unit test and by a unit built with LTO that is a
\* library linked into both: not built for the host, not itself subject to
\* LTO, not a pure dylib.
SharedByTestAndRelease(t, r, d) ==
    /\ bcx.units[t].mode = "Test"
    /\ bcx.units[r].mode = "Build" /\ IsRun(map[r])
    /\ d \in bcx.unit_graph[t] \cap bcx.unit_graph[r]
    /\ ~bcx.units[d].for_host
    /\ ~all_lto_types(bcx.units[d])
    /\ \E i \in 1..Len(bcx.units[d].crate_types) : bcx.units[d].crate_types[i] # "dylib"

None == <<>>
Some(m) == <<m>>

GNU == "x86_64-unknown-linux-gnu"
HostTriples == {GNU, "x86_64-apple-darwin", "x86_64-pc-windows-msvc"}
WASM == "wasm32-unknown-unknown"

\* short_name.starts_with("wasm32-"), .contains("msvc"), .contains("-apple-")
StartsWithWasm32(t) == t = WASM
ContainsMsvc(t) == t = "x86_64-pc-windows-msvc"
ContainsApple(t) == t = "x86_64-apple-darwin"

Modes == {"Build", "Test", "Doctest", "Check"}
Profiles == {"dev", "release"}
FeatureSets == {<<>>, <<"f">>}
Kinds == {<<"Host">>, <<"Target", WASM>>}
Channels == {"stable", "nightly", "beta"}

\* A unit of package n: target kind, path (workspace member) or registry
\* source, mode; the remaining attributes start as those of a plain dev
\* build for the host.
MetaUnit(n, shape) ==
    [pkg |-> [name |-> n, is_path |-> shape.is_path, is_member |-> shape.is_path],
     target |-> [name |-> n, kind |-> shape.target],
     mode |-> shape.mode, profile |-> "dev", features |-> <<>>, kind |-> <<"Host">>,
     lto |-> OnlyObject, is_std |-> FALSE]

\* The units a context is drawn from: a local library built, tested or doc
\* tested, a local and a registry dylib, a local executable.
MetaShapes ==
    {[target |-> "lib", is_path |-> TRUE, mode |-> m] : m \in {"Build", "Test", "Doctest"}}
    \cup {[target |-> "dylib", is_path |-> l, mode |-> "Build"] : l \in BOOLEAN}
    \cup {[target |-> "bin", is_path |-> TRUE, mode |-> "Build"]}

\* bcx.target_data.short_name(&unit.kind)
short_name(c, u) == IF u.kind = <<"Host">> THEN c.rustc.host ELSE u.kind[2]

\* metadata.rs 129-176
should_use_metadata(c, u) ==
    IF u.mode = "Doctest" THEN FALSE
    ELSE IF u.mode \in {"Test", "Bench", "Check"} THEN TRUE
    ELSE ~(/\ \/ u.target.kind = "dylib"
              \/ u.target.kind = "cdylib"
              \/ u.target.kind = "bin" /\ StartsWithWasm32(short_name(c, u))
              \/ u.target.kind = "bin" /\ ContainsMsvc(short_name(c, u))
              \/ u.target.kind = "bin" /\ ContainsApple(short_name(c, u))
           /\ u.pkg.is_path
           /\ c.env = None)

\* bcx.rustc(): vers.pre and verbose_version, whose lines hold the release
\* with its channel, the commit and the host (metadata.rs 115-121).
pre(rustc) == IF rustc.channel = "stable" THEN <<>> ELSE <<rustc.channel>>
verbose_version(rustc) == <<rustc.channel, rustc.commit, rustc.host>>

\* metadata.rs 96-126: what is fed to the hasher for the compiler.
hash_rustc_version(c) ==
    IF pre(c.rustc) = <<>> \/ c.separate_nightlies
    THEN <<verbose_version(c.rustc)>>
    ELSE <<pre(c.rustc)[1], c.rustc.host>>

\* deps_metadata.sort(): the sorted vector is given by how many times each
\* value occurs in it.
Sorted(v) ==
    [x \in {v[i] : i \in 1..Len(v)} |-> Cardinality({i \in 1..Len(v) : v[i] = x})]

\* A plausible slip: the profile not fed to the hasher.
hashedWithoutProfile(c, u, deps_metadata) ==
    <<"METADATA_VERSION", u.pkg, u.features, Sorted(deps_metadata),
      u.mode, u.lto, u.kind, u.target.name, u.target.kind>>
    \o hash_rustc_version(c)
    \o (IF u.pkg.is_member THEN c.rustc.workspace_wrapper ELSE <<>>)
    \o c.env
    \o <<u.is_std>>

\* metadata.rs 27-93: everything fed to the hasher, in order.
hashed(c, u, deps_metadata) ==
    <<"METADATA_VERSION", u.pkg, u.features, Sorted(deps_metadata), u.profile,
      u.mode, u.lto, u.kind, u.target.name, u.target.kind>>
    \o hash_rustc_version(c)
    \o (IF u.pkg.is_member THEN c.rustc.workspace_wrapper ELSE <<>>)
    \o c.env
    \o <<u.is_std>>

\* cx.unit_deps(unit) as a vector, in ascending order.
RECURSIVE Ascending(_)
Ascending(S) == IF S = {} THEN <<>> ELSE <<Min(S)>> \o Ascending(S \ {Min(S)})
unit_deps(c, n) == Ascending(c.unit_deps[n])

\* The compiler: release channel, commit, host, RUSTC_WORKSPACE_WRAPPER.
Rustc(channel) ==
    [channel |-> channel, commit |-> "c1", host |-> GNU, workspace_wrapper |-> None]

\* A call of metadata_of(unit): at "entry" before the test of line 8, at
\* "compute" while compute_metadata runs, at "loop" in the loop of line 11.
MetadataOfCall(n) == [fn |-> "metadata_of", unit |-> n, at |-> "entry", todo |-> <<>>,
                      deps_metadata |-> <<>>]
\* A call of compute_metadata(unit) with the dependencies still to map.
ComputeMetadataCall(c, n) ==
    [fn |-> "compute_metadata", unit |-> n, at |-> "entry", todo |-> unit_deps(c, n),
     deps_metadata |-> <<>>]

\* metadata_of(1) is called with an empty cache on a context: any kind for
\* every unit, any forward edges, a stable or a nightly compiler.
MetaInit ==
    /\ \E k \in [Units -> MetaShapes], g \in ForwardGraphs(Units),
          ch \in {"stable", "nightly"} :
          cx = [units |-> [n \in Units |-> MetaUnit(n, k[n])], unit_deps |-> g,
                rustc |-> Rustc(ch), separate_nightlies |-> FALSE, env |-> None]
    /\ metas = <<>>
    /\ calls = <<MetadataOfCall(1)>>
    /\ computed = [n \in Units |-> 0]
    /\ varied = <<>>
    /\ GcIdle /\ MergeIdle /\ LtoIdle

\* metadata_of returns `value` to the callers `rest`: the closure of line 46
\* collects it, the loop of line 12 drops it.
ReturnTo(rest, value) ==
    IF rest # <<>> /\ Head(rest).fn = "compute_metadata"
    THEN <<[Head(rest) EXCEPT !.deps_metadata = Append(@, value)]>> \o Tail(rest)
    ELSE rest

\* A plausible slip: a cached None taken for a missing entry.
containsSome(m, n) == n \in DOMAIN m /\ m[n] # None

\* metas.contains_key(unit) (metadata.rs 8)
contains_key(m, n) == n \in DOMAIN m

\* metadata_of, lines 8-9 and 15: a cached unit returns its entry, any other
\* unit calls compute_metadata.
MetadataOf ==
    /\ calls # <<>>
    /\ Head(calls).fn = "metadata_of" /\ Head(calls).at = "entry"
    /\ LET n == Head(calls).unit IN
       IF contains_key(metas, n)
       THEN /\ calls' = ReturnTo(Tail(calls), metas[n])
            /\ UNCHANGED computed
       ELSE /\ calls' = <<ComputeMetadataCall(cx, n),
                           [Head(calls) EXCEPT !.at = "compute"]>> \o Tail(calls)
            /\ computed' = [computed EXCEPT ![n] = @ + 1]
    /\ UNCHANGED <<cx, metas, varied, gcvars, mergevars, ltovars>>

\* compute_metadata returns `meta` to metadata_of, which inserts it and
\* enters its loop (metadata.rs 9-11).
Insert(n, meta) ==
    /\ metas' = Put(metas, n, meta)
    /\ calls' = <<[Tail(calls)[1] EXCEPT !.at = "loop", !.todo = unit_deps(cx, n)]>>
                 \o Tail(Tail(calls))

\* compute_metadata: None for a unit without metadata (24-26), one call of
\* metadata_of per dependency (43-47), then the hash (48-93).
ComputeMetadata ==
    /\ calls # <<>>
    /\ Head(calls).fn = "compute_metadata"
    /\ LET f == Head(calls)
           u == cx.units[f.unit]
       IN IF ~should_use_metadata(cx, u)
          THEN Insert(f.unit, None)
          ELSE IF f.todo # <<>>
          THEN /\ calls' = <<MetadataOfCall(Head(f.todo)),
                              [f EXCEPT !.todo = Tail(@)]>> \o Tail(calls)
               /\ UNCHANGED metas
          ELSE Insert(f.unit, Some(hashed(cx, u, f.deps_metadata)))
    /\ UNCHANGED <<cx, computed, varied, gcvars, mergevars, ltovars>>

\* metadata_of, lines 11-15: one call per dependency, then metas[unit].
MetadataOfLoop ==
    /\ calls # <<>>
    /\ Head(calls).fn = "metadata_of" /\ Head(calls).at = "loop"
    /\ LET f == Head(calls) IN
       IF f.todo # <<>>
       THEN calls' = <<MetadataOfCall(Head(f.todo)), [f EXCEPT !.todo = Tail(@)]>>
                     \o Tail(calls)
       ELSE calls' = ReturnTo(Tail(calls), metas[f.unit])
    /\ UNCHANGED <<cx, metas, computed, varied, gcvars, mergevars, ltovars>>

\* The traversal started by metadata_of(1) has returned.
Traversed == cx # <<>> /\ calls = <<>>

\* The identifier of a unit as a function of the context: what metadata_of
\* returns for it (metadata.rs 3-94).
RECURSIVE metadata(_, _)
metadata(c, n) ==
    IF ~should_use_metadata(c, c.units[n]) THEN None
    ELSE LET deps == unit_deps(c, n) IN
         Some(hashed(c, c.units[n], [i \in 1..Len(deps) |-> metadata(c, deps[i])]))

\* One attribute of one unit, or of the compiler (unit 0), given a value.
Change(n, field, value) == [unit |-> n, field |-> field, value |-> value]

\* The context with the change applied.
Apply(c, ch) ==
    CASE ch.field = "profile" -> [c EXCEPT !.units[ch.unit].profile = ch.value]
      [] ch.field = "features" -> [c EXCEPT !.units[ch.unit].features = ch.value]
      [] ch.field = "mode" -> [c EXCEPT !.units[ch.unit].mode = ch.value]
      [] ch.field = "kind" -> [c EXCEPT !.units[ch.unit].kind = ch.value]
      [] ch.field = "lto" -> [c EXCEPT !.units[ch.unit].lto = ch.value]
      [] ch.field = "channel" -> [c EXCEPT !.rustc.channel = ch.value]
      [] OTHER -> [c EXCEPT !.rustc.host = ch.value]

\* After the traversal: exactly one attribute of a traversed unit or of the
\* compiler is chosen to differ in a second build, whose identifiers are
\* then compared with the first's.
Vary ==
    /\ Traversed
    /\ varied = <<>>
    /\ \E ch \in {Change(n, "profile", v) : n \in DOMAIN metas, v \in Profiles}
                 \cup {Change(n, "mode", v) : n \in DOMAIN metas, v \in Modes}
                 \cup {Change(0, "channel", v) : v \in Channels}
                 \cup {Change(0, "host", v) : v \in HostTriples} :
          Apply(cx, ch) # cx /\ varied' = ch
    /\ UNCHANGED <<cx, metas, calls, computed, gcvars, mergevars, ltovars>>

\* The same for the attributes that are not strings.
VaryStructured ==
    /\ Traversed
    /\ varied = <<>>
    /\ \E n \in DOMAIN metas :
          \E ch \in {Change(n, "features", v) : v \in FeatureSets}
                    \cup {Change(n, "kind", v) : v \in Kinds} :
             Apply(cx, ch) # cx /\ varied' = ch
    /\ UNCHANGED <<cx, metas, calls, computed, gcvars, mergevars, ltovars>>

\* The same for the LTO requirement cx.lto[unit].
VaryLto ==
    /\ Traversed
    /\ varied = <<>>
    /\ \E n \in DOMAIN metas :
          \E ch \in {Change(n, "lto", v) : v \in {OnlyObject, OnlyBitcode}} :
             Apply(cx, ch) # cx /\ varied' = ch
    /\ UNCHANGED <<cx, metas, calls, computed, gcvars, mergevars, ltovars>>

MetaNext ==
    \/ MetadataOf
    \/ ComputeMetadata
    \/ MetadataOfLoop
    \/ Vary
    \/ VaryStructured
    \/ VaryLto

SpecMeta == MetaInit /\ [][MetaNext]_vars

(***************************************************************************)
(* Vocabulary of the properties of metadata_of                             *)
(***************************************************************************)
\* d is a unit the unit n depends on, at any depth.
RECURSIVE DependsOn(_, _, _)
DependsOn(c, n, d) ==
    \E x \in c.unit_deps[n] : x = d \/ DependsOn(c, x, d)

\* d is reached from n along a path on which n and every unit between n and
\* d use metadata.
RECURSIVE HashedPath(_, _, _)
HashedPath(c, n, d) ==
    /\ should_use_metadata(c, c.units[n])
    /\ \E x \in c.unit_deps[n] : x = d \/ HashedPath(c, x, d)

\* The identifier of n in the second build differs from the first's.
IdentifierChanged(n) == metadata(Apply(cx, varied), n) # metas[n]

\* The change is one of the attributes of the unit n (or of the compiler).
ChangedAt(n) == varied.unit \in {0, n}

(***************************************************************************)
(* C17  (as stated) Fingerprint sensitivity: for every unit, changing      *)
(* exactly one of its profile, features, mode, platform, LTO requirement   *)
(* or the compiler's channel or host changes its identifier; a change of   *)
(* the identifier of a dependency at any depth changes it too; a unit      *)
(* whose own attributes and whose dependencies' identifiers are the same   *)
(* has the same identifier.                                                *)
(***************************************************************************)
C17_EveryChangeChangesTheIdentifier ==
    varied # <<>> =>
       \A n \in DOMAIN metas :
          /\ ChangedAt(n) => IdentifierChanged(n)
          /\ \A d \in DOMAIN metas :
                (DependsOn(cx, n, d) /\ IdentifierChanged(d)) => IdentifierChanged(n)
          /\ (~ChangedAt(n) /\ \A d \in DOMAIN metas :
                                 DependsOn(cx, n, d) => ~IdentifierChanged(d))
                => ~IdentifierChanged(n)

(***************************************************************************)
(* C17  (amended) Fingerprint sensitivity, the hasher taken to be free of  *)
(* collisions: changing exactly one of a unit's profile, features, mode,   *)
(* platform, LTO requirement or the compiler's channel or host changes the *)
(* unit's identifier exactly when the unit uses metadata before or after   *)
(* the change (a unit that does not has the identifier None on both        *)
(* sides); a change of the identifier of a dependency changes the          *)
(* identifier of a unit that reaches it along a path on which the unit     *)
(* and every unit in between use metadata; a unit whose own attributes and *)
(* whose dependencies' identifiers are the same has the same identifier.   *)
(***************************************************************************)
C17_ChangesReachFingerprintedUnits ==
    varied # <<>> =>
       \A n \in DOMAIN metas :
          /\ ChangedAt(n) =>
                (IdentifierChanged(n) <=>
                    \/ should_use_metadata(cx, cx.units[n])
                    \/ should_use_metadata(Apply(cx, varied), Apply(cx, varied).units[n]))
          /\ \A d \in DOMAIN metas :
                (HashedPath(cx, n, d) /\ IdentifierChanged(d)) => IdentifierChanged(n)
          /\ (~ChangedAt(n) /\ \A d \in DOMAIN metas :
                                 DependsOn(cx, n, d) => ~IdentifierChanged(d))
                => ~IdentifierChanged(n)

\* The profile of unit 3 differs; unit 1 reaches it only through unit 2,
\* all three use metadata, and the identifier of unit 1 differs.
C17_Witness ==
    /\ varied # <<>>
    /\ varied.unit = 3 /\ varied.field = "profile"
    /\ cx.unit_deps[1] = {2} /\ cx.unit_deps[2] = {3}
    /\ metas[1] # None /\ metas[2] # None /\ metas[3] # None
    /\ IdentifierChanged(3) /\ IdentifierChanged(1)

(***************************************************************************)
(* Termination of generate                                                 *)
(*                                                                         *)
(* generate is a sequential computation: whenever a step is possible one   *)
(* is taken.                                                               *)
(***************************************************************************)
SpecLtoFair == LtoInit /\ [][LtoNext]_vars /\ WF_vars(LtoNext)

\* The number of paths from a root to the unit n.
RECURSIVE NumPaths(_, _)
RECURSIVE SumPaths(_, _)
NumPaths(b, n) == (IF n \in b.roots THEN 1 ELSE 0) + SumPaths(b, Parents(b, n))
SumPaths(b, S) == IF S = {} THEN 0 ELSE NumPaths(b, Min(S)) + SumPaths(b, S \ {Min(S)})

(***************************************************************************)
(* C18  generate terminates on every DAG: it eventually returns; a call of *)
(* calculate that leaves the map as it is (the merged value equals the     *)
(* stored one) does not reach the loop over the dependencies; and the loop *)
(* of any one unit is reached at most twice, however many paths lead from  *)
(* the roots to the unit.                                                  *)
(***************************************************************************)
C18_GenerateTerminates ==
    /\ <>Generated
    /\ [][map' = map => recursed' = recursed]_vars
    /\ [](bcx # <<>> => \A n \in Units : recursed[n] <= 2)

\* generate has returned; a unit that four root-to-unit paths lead to had
\* its loop reached twice.
C18_Witness ==
    /\ Generated
    /\ \E n \in Units : NumPaths(bcx, n) = 4 /\ recursed[n] = 2

(***************************************************************************)
(* Vocabulary of the properties of the traversal of metadata_of            *)
(***************************************************************************)
\* The units the traversal started at unit 1 reaches.
ReachableUnits == {1} \cup {d \in Units : DependsOn(cx, 1, d)}

\* The units that more than one unit depends on.
SharedUnits == {d \in Units : Cardinality({n \in ReachableUnits : d \in cx.unit_deps[n]}) > 1}

(***************************************************************************)
(* C19  During the traversal started by metadata_of, compute_metadata is   *)
(* executed at most once for every unit, and exactly once for every        *)
(* reachable unit when the traversal has returned, however many parents    *)
(* reach the unit; an entry of the cache, once inserted, is never          *)
(* overwritten with a different value.                                     *)
(***************************************************************************)
C19_ComputedOncePerUnit ==
    [][/\ \A n \in Units : computed'[n] <= 1
       /\ (calls' = <<>> /\ cx' # <<>>) =>
             \A n \in Units : computed'[n] = (IF n \in ReachableUnits' THEN 1 ELSE 0)
       /\ \A n \in DOMAIN metas : n \in DOMAIN metas' /\ metas'[n] = metas[n]]_vars

\* The traversal has returned over a graph in which unit 3 is a dependency
\* of units 1 and 2, unit 2 one of unit 1; unit 3 was computed once, and a
\* unit without metadata is cached as None.
C19_Witness ==
    /\ Traversed
    /\ varied = <<>>
    /\ cx.unit_deps[1] = {2, 3} /\ cx.unit_deps[2] = {3}
    /\ 3 \in SharedUnits
    /\ computed[3] = 1
    /\ metas[3] = None /\ metas[1] # None

(***************************************************************************)
(* C20  In every state of generate a unit compiled for the host holds      *)
(* OnlyObject, and a unit that is not compiled for the host and whose      *)
(* crate types (those calculate compiles it as) do not all support LTO     *)
(* holds OnlyObject, OnlyBitcode or ObjectAndBitcode, never Run(_) or Off; *)
(* the value stored for a unit changes only from OnlyObject or OnlyBitcode *)
(* to ObjectAndBitcode, hence at most once.                                *)
(***************************************************************************)
C20_StoredValuesByUnitClass ==
    [][/\ \A n \in DOMAIN map' :
             LET u == bcx.units[n] IN
             /\ u.for_host => map'[n] = OnlyObject
             /\ (~u.for_host /\ ~all_lto_types(u)) =>
                   map'[n] \in {OnlyObject, OnlyBitcode, ObjectAndBitcode}
       /\ \A n \in DOMAIN map :
             /\ n \in DOMAIN map'
             /\ map'[n] # map[n] =>
                   (map[n] \in {OnlyObject, OnlyBitcode} /\ map'[n] = ObjectAndBitcode)]_vars

\* generate has returned: a library below a unit that runs LTO was raised
\* from OnlyBitcode or OnlyObject to ObjectAndBitcode, and a unit built for
\* the host below a unit that runs LTO holds OnlyObject.
C20_Witness ==
    /\ Generated
    /\ \E n, h, p \in Units :
          /\ ~bcx.units[n].for_host /\ ~all_lto_types(bcx.units[n])
          /\ recursed[n] = 2
          /\ map[n] = ObjectAndBitcode
          /\ bcx.units[h].for_host
          /\ IsRun(map[p]) /\ h \in bcx.unit_graph[p]
          /\ map[h] = OnlyObject
====
